---- MODULE Spec2Model ----
(***************************************************************************)
(* Model of graphene_django/views.py: the GraphQLView request pipeline     *)
(* (parse_body -> run_http_query -> encode_execution_results -> response)  *)
(* and the Accept-header negotiation (get_accepted_content_types,          *)
(* request_wants_html).                                                    *)
(*                                                                         *)
(* Text is modelled as a sequence of lexemes (a lexeme is a run of         *)
(* characters that none of the string operations of the code cuts), so     *)
(* that split, lower, the q= regular expression and JSON parsing are       *)
(* computed as the code computes them.                                     *)
(***************************************************************************)
EXTENDS Integers, Sequences, FiniteSets, TLC

\* Bounds of the model.
MaxEntries == 2
MaxBatch == 2
NumReq == 2

\* Python's None, where a string or a flag is expected.
None == "<None>"

(***************************************************************************)
(* String helpers (Python str methods over lexeme sequences).              *)
(***************************************************************************)

\* Index of the first occurrence of sep in s, 0 when there is none.
RECURSIVE FindFrom(_, _, _)
FindFrom(s, sep, i) ==
    IF i > Len(s) THEN 0
    ELSE IF s[i] = sep THEN i
    ELSE FindFrom(s, sep, i + 1)

Find(s, sep) == FindFrom(s, sep, 1)

\* s.split(sep): always at least one part, empty parts kept.
RECURSIVE Split(_, _)
Split(s, sep) ==
    LET i == Find(s, sep) IN
    IF i = 0 THEN << s >>
    ELSE << SubSeq(s, 1, i - 1) >> \o Split(SubSeq(s, i + 1, Len(s)), sep)

\* s.split(sep, 1): one or two parts.
Split1(s, sep) ==
    LET i == Find(s, sep) IN
    IF i = 0 THEN << s >>
    ELSE << SubSeq(s, 1, i - 1), SubSeq(s, i + 1, Len(s)) >>

\* str.lower() on one lexeme: the upper-case spellings the inputs use.
LowerLex(c) ==
    CASE c = "APPLICATION/JSON" -> "application/json"
      [] c = "Application/GraphQL" -> "application/graphql"
      [] c = "GET" -> "get"
      [] c = "POST" -> "post"
      [] c = "PUT" -> "put"
      [] OTHER -> c

Lower(s) == [i \in 1..Len(s) |-> LowerLex(s[i])]

\* dict.get(key, default) on a mapping modelled as a function.
DictGet(d, key, default) == IF key \in DOMAIN d THEN d[key] ELSE default

(***************************************************************************)
(* Content negotiation: get_accepted_content_types / request_wants_html.   *)
(***************************************************************************)

Digits == {"0", "1", "2", "3", "4", "5", "6", "7", "8", "9"}

DigitVal(c) ==
    CASE c = "0" -> 0 [] c = "1" -> 1 [] c = "2" -> 2 [] c = "3" -> 3
      [] c = "4" -> 4 [] c = "5" -> 5 [] c = "6" -> 6 [] c = "7" -> 7
      [] c = "8" -> 8 [] c = "9" -> 9

\* The weight of an entry without a usable q, in thousandths (1 in the code).
DefaultWeight == 1000

\* v is in the language of  0(\.\d{,3})?|1(\.0{,3})?
QLang(v) ==
    /\ Len(v) >= 1
    /\ \/ /\ v[1] = "0"
          /\ \/ Len(v) = 1
             \/ /\ v[2] = "."
                /\ Len(v) <= 5
                /\ \A i \in 3..Len(v) : v[i] \in Digits
       \/ /\ v[1] = "1"
          /\ \/ Len(v) = 1
             \/ /\ v[2] = "."
                /\ Len(v) <= 5
                /\ \A i \in 3..Len(v) : v[i] = "0"

\* float(v) for v in QLang, in thousandths.
QFloat(v) ==
    LET d(i) == IF i <= Len(v) THEN DigitVal(v[i]) ELSE 0 IN
    IF v[1] = "1" THEN 1000
    ELSE d(3) * 100 + d(4) * 10 + d(5)

\* re.match(r'(^|;)q=(0(\.\d{,3})?|1(\.0{,3})?)(;|$)', p): the match is
\* anchored at the start of p.  The result is group(2), or the empty text
\* when there is no match (group(2) of a match is never empty).
ReMatchQ(p) ==
    LET start == IF Len(p) >= 1 /\ p[1] = "q=" THEN 1
                 ELSE IF Len(p) >= 2 /\ p[1] = ";" /\ p[2] = "q=" THEN 2
                 ELSE 0
        rest == SubSeq(p, start + 1, Len(p))
        ends == {k \in 1..Len(rest) :
                    /\ QLang(SubSeq(rest, 1, k))
                    /\ (k = Len(rest) \/ rest[k + 1] = ";")}
    IN IF start = 0 \/ ends = {} THEN << >>
       ELSE SubSeq(rest, 1, CHOOSE k \in ends : \A j \in ends : j <= k)

\* qualify(x) of get_accepted_content_types: (media type, weight).
qualify(x) ==
    LET parts == Split1(x, ";") IN
    IF Len(parts) = 2 /\ ReMatchQ(parts[2]) # << >>
    THEN << parts[1], QFloat(ReMatchQ(parts[2])) >>
    ELSE << parts[1], DefaultWeight >>

\* sorted(..., key=lambda x: x[1], reverse=True): stable, descending.
RECURSIVE InsertDesc(_, _)
InsertDesc(sorted, x) ==
    IF sorted = << >> THEN << x >>
    ELSE IF sorted[1][2] >= x[2] THEN << sorted[1] >> \o InsertDesc(Tail(sorted), x)
    ELSE << x >> \o sorted

RECURSIVE SortedDesc(_)
SortedDesc(s) ==
    IF s = << >> THEN << >>
    ELSE InsertDesc(SortedDesc(SubSeq(s, 1, Len(s) - 1)), s[Len(s)])

\* request.META.get('HTTP_ACCEPT', '*/*')
AcceptOf(meta) == DictGet(meta, "HTTP_ACCEPT", << "*/*" >>)

get_accepted_content_types(meta) ==
    LET raw_content_types == Split(AcceptOf(meta), ",")
        qualified == [i \in 1..Len(raw_content_types) |-> qualify(raw_content_types[i])]
        ranked == SortedDesc(qualified)
    IN [i \in 1..Len(ranked) |-> ranked[i][1]]

\* list.count(x)
Count(s, x) == Cardinality({i \in 1..Len(s) : s[i] = x})

request_wants_html(meta) ==
    LET accepted == get_accepted_content_types(meta)
        html_index == Count(accepted, << "text/html" >>)
        json_index == Count(accepted, << "application/json" >>)
    IN html_index > json_index

(***************************************************************************)
(* GraphQLView construction.                                               *)
(***************************************************************************)

\* Middleware specs: a class (instantiated with no arguments) or an instance.
MwClass(n) == [isclass |-> TRUE, name |-> n]
MwInstance(n) == [isclass |-> FALSE, name |-> n]

\* instantiate_middleware: classes are instantiated, instances pass through.
instantiate_middleware(middlewares) ==
    [i \in 1..Len(middlewares) |->
        IF middlewares[i].isclass THEN MwInstance(middlewares[i].name)
        ELSE middlewares[i]]

\* graphene_settings.MIDDLEWARE as configured for the process.
SettingsMiddleware == << MwClass("SettingsMw") >>

\* The class-level attributes of GraphQLView.
ClassAttrs ==
    [schema |-> None, executor |-> None, root_value |-> None, pretty |-> FALSE,
     graphiql |-> FALSE, middleware |-> << >>, batch |-> TRUE]

\* GraphQLView.__init__(**kwargs): kwargs holds the keyword arguments given;
\* a parameter that is not given has the default of the signature.
GraphQLViewInit(kwargs) ==
    LET schema == "settings.SCHEMA"
        middleware == DictGet(kwargs, "middleware", SettingsMiddleware)
        pretty == DictGet(kwargs, "pretty", FALSE)
        graphiql == DictGet(kwargs, "graphiql", FALSE)
        batch == DictGet(kwargs, "batch", FALSE)
    IN [ClassAttrs EXCEPT !.schema = schema,
                          !.middleware = instantiate_middleware(middleware),
                          !.pretty = pretty,
                          !.graphiql = graphiql,
                          !.batch = batch]

(***************************************************************************)
(* Request bodies and their decoding: get_content_type / parse_body.       *)
(***************************************************************************)

EmptyDict == << >>

\* JSON object lexemes and the mapping each one denotes.
ObjA == "{\"query\":\"{a}\"}"
ObjFail == "{\"query\":\"{fail}\"}"
ObjMut == "{\"query\":\"mutation{m}\"}"
ObjNone == "{}"
ObjLexemes == {ObjA, ObjFail, ObjMut, ObjNone}

ObjOf(lex) ==
    CASE lex = ObjA -> ("query" :> << "{a}" >>)
      [] lex = ObjFail -> ("query" :> << "{fail}" >>)
      [] lex = ObjMut -> ("query" :> << "mutation{m}" >>)
      [] lex = ObjNone -> EmptyDict

\* Decoded request data: a mapping, a list of mappings, or another JSON value.
DictData(d) == [kind |-> "dict", fields |-> d, items |-> << >>]
ListData(l) == [kind |-> "list", fields |-> EmptyDict, items |-> l]
ScalarData == [kind |-> "scalar", fields |-> EmptyDict, items |-> << >>]

HttpQueryError(status, message, headers) ==
    [status_code |-> status, message |-> message, headers |-> headers]

NoError == HttpQueryError(0, "", EmptyDict)

Ok(v) == [tag |-> "ok", value |-> v, error |-> NoError]
RaiseHttp(e) == [tag |-> "HttpQueryError", value |-> ScalarData, error |-> e]
RaiseUnicode == [tag |-> "UnicodeDecodeError", value |-> ScalarData, error |-> NoError]

\* json.loads on the lexemes of the text: an object, a number, or an array of
\* objects; anything else is not JSON.
JsonValid(text) ==
    \/ Len(text) = 1 /\ text[1] \in ObjLexemes \cup {"3"}
    \/ /\ Len(text) >= 2
       /\ text[1] = "["
       /\ text[Len(text)] = "]"
       /\ LET inner == SubSeq(text, 2, Len(text) - 1) IN
          \/ inner = << >>
          \/ \A part \in {Split(inner, ",")[i] : i \in 1..Len(Split(inner, ","))} :
                Len(part) = 1 /\ part[1] \in ObjLexemes

JsonLoads(text) ==
    IF Len(text) = 1 /\ text[1] \in ObjLexemes THEN DictData(ObjOf(text[1]))
    ELSE IF Len(text) = 1 THEN ScalarData
    ELSE LET inner == SubSeq(text, 2, Len(text) - 1)
             parts == IF inner = << >> THEN << >> ELSE Split(inner, ",")
         IN ListData([i \in 1..Len(parts) |-> ObjOf(parts[i][1])])

\* graphql_server.load_json_body
load_json_body(text) ==
    IF JsonValid(text) THEN Ok(JsonLoads(text))
    ELSE RaiseHttp(HttpQueryError(400, "POST body sent invalid JSON.", EmptyDict))

\* GraphQLView.get_content_type
get_content_type(request) ==
    LET meta == request.META
        content_type == DictGet(meta, "CONTENT_TYPE",
                                DictGet(meta, "HTTP_CONTENT_TYPE", << >>))
    IN Lower(Split1(content_type, ";")[1])

\* GraphQLView.parse_body.  request.body.decode('utf-8') raises
\* UnicodeDecodeError on bytes that are not UTF-8.
parse_body(request) ==
    LET content_type == get_content_type(request) IN
    IF content_type = << "application/graphql" >> THEN
        IF request.body.utf8 THEN Ok(DictData("query" :> request.body.text))
        ELSE RaiseUnicode
    ELSE IF content_type = << "application/json" >> THEN
        IF request.body.utf8 THEN load_json_body(request.body.text)
        ELSE RaiseUnicode
    ELSE IF content_type \in {<< "application/x-www-form-urlencoded" >>,
                              << "multipart/form-data" >>} THEN
        Ok(DictData(request.POST))
    ELSE Ok(DictData(EmptyDict))

(***************************************************************************)
(* The executable schema and graphql_server's query runner and encoder.    *)
(***************************************************************************)

\* An ExecutionResult; NoResult is the None that stands for an operation
\* whose HttpQueryError was caught inside the runner.
ExecutionResult(data, errors) == [isNone |-> FALSE, data |-> data, errors |-> errors]
NoResult == [isNone |-> TRUE, data |-> None, errors |-> << >>]

\* The schema under test: fields a and m resolve, field fail raises in its
\* resolver (data is still present), any other text does not parse.
QueryA == << "{a}" >>
QueryFail == << "{fail}" >>
MutationM == << "mutation{m}" >>

OperationType(query) ==
    IF query = MutationM THEN "mutation"
    ELSE IF query \in {QueryA, QueryFail} THEN "query"
    ELSE None

Execute(query) ==
    CASE query = QueryA -> ExecutionResult("{\"a\":1}", << >>)
      [] query = MutationM -> ExecutionResult("{\"m\":1}", << >>)
      [] query = QueryFail -> ExecutionResult("{\"fail\":null}", << "fail raised" >>)
      [] OTHER -> ExecutionResult(None, << "Syntax Error" >>)

\* get_graphql_params: the query of the payload, else that of the extra data.
get_graphql_params(entry, extra_data) ==
    LET q == DictGet(entry, "query", << >>) IN
    [query |-> IF q # << >> THEN q ELSE DictGet(extra_data, "query", << >>)]

\* execute_graphql_request for one operation.
execute_graphql_request(params, allow_only_query) ==
    IF params.query = << >> THEN
        RaiseHttp(HttpQueryError(400, "Must provide query string.", EmptyDict))
    ELSE IF allow_only_query /\ OperationType(params.query) = "mutation" THEN
        RaiseHttp(HttpQueryError(405,
            "Can only perform a mutation operation from a POST request.",
            ("Allow" :> "POST")))
    ELSE Ok(Execute(params.query))

\* get_response: with catch set, an HttpQueryError of the operation is
\* caught and the operation has no result.
get_response(params, catch, allow_only_query) ==
    LET out == execute_graphql_request(params, allow_only_query) IN
    IF out.tag = "HttpQueryError" /\ catch THEN Ok(NoResult) ELSE out

RunOk(results, all_params, caught) ==
    [tag |-> "ok", error |-> NoError, results |-> results,
     all_params |-> all_params, caught |-> caught]
RunRaise(e) ==
    [tag |-> "HttpQueryError", error |-> e, results |-> << >>,
     all_params |-> << >>, caught |-> << >>]

\* run_http_query(schema, request_method, data, query_data, batch_enabled,
\* catch).  caught lists the HttpQueryErrors that get_response caught.
run_http_query(request_method, data, query_data, batch_enabled, catch) ==
    LET is_batch == data.kind = "list"
        entries == IF is_batch THEN data.items ELSE << data.fields >>
        extra_data == IF is_batch THEN EmptyDict ELSE query_data
        all_params == [i \in 1..Len(entries) |->
                          get_graphql_params(entries[i], extra_data)]
        allow_only_query == request_method = << "get" >>
        raw == [i \in 1..Len(entries) |->
                   execute_graphql_request(all_params[i], allow_only_query)]
        responses == [i \in 1..Len(entries) |->
                         get_response(all_params[i], catch, allow_only_query)]
        failing == {i \in 1..Len(entries) : responses[i].tag = "HttpQueryError"}
        caughtAt == SelectSeq([i \in 1..Len(entries) |-> i],
                              LAMBDA i : raw[i].tag = "HttpQueryError" /\ catch)
    IN
    IF request_method \notin {<< "get" >>, << "post" >>} THEN
        RunRaise(HttpQueryError(405, "GraphQL only supports GET and POST requests.",
                                ("Allow" :> "GET, POST")))
    ELSE IF ~is_batch /\ data.kind # "dict" THEN
        RunRaise(HttpQueryError(400, "GraphQL params should be a dict.", EmptyDict))
    ELSE IF is_batch /\ ~batch_enabled THEN
        RunRaise(HttpQueryError(400, "Batch GraphQL requests are not enabled.", EmptyDict))
    ELSE IF entries = << >> THEN
        RunRaise(HttpQueryError(400, "Received an empty list in the batch request.",
                                EmptyDict))
    ELSE IF failing # {} THEN
        RunRaise(responses[CHOOSE i \in failing : \A j \in failing : i <= j].error)
    ELSE RunOk([i \in 1..Len(entries) |-> responses[i].value], all_params,
               [k \in 1..Len(caughtAt) |-> raw[caughtAt[k]].error])

\* A JSON value on its way out: an object with the members named in keys,
\* or null.
JsonNull == [keys |-> {}, data |-> None, errors |-> << >>]
JsonResult(data, errors) ==
    [keys |-> IF errors = << >> THEN {"data"} ELSE {"data", "errors"},
     data |-> data, errors |-> errors]
JsonErrors(errors) == [keys |-> {"errors"}, data |-> None, errors |-> errors]

\* format_execution_result: (response, status code).
format_execution_result(execution_result) ==
    IF execution_result.isNone THEN [response |-> JsonNull, status_code |-> 200]
    ELSE [response |-> JsonResult(execution_result.data, execution_result.errors),
          status_code |-> IF execution_result.errors # << >> THEN 400 ELSE 200]

\* json_encode: the text of one value, or of a list of values.
Tok(t, v) == [t |-> t, v |-> v]
Punct(t) == Tok(t, JsonNull)

RECURSIVE JoinValues(_)
JoinValues(vs) ==
    IF vs = << >> THEN << >>
    ELSE IF Len(vs) = 1 THEN << Tok("value", vs[1]) >>
    ELSE << Tok("value", vs[1]), Punct(",") >> \o JoinValues(Tail(vs))

json_encode_one(v, pretty) == [pretty |-> pretty, tokens |-> << Tok("value", v) >>]
json_encode_list(vs, pretty) ==
    [pretty |-> pretty, tokens |-> << Punct("[") >> \o JoinValues(vs) \o << Punct("]") >>]

RECURSIVE MaxOf(_)
MaxOf(s) ==
    IF Len(s) = 1 THEN s[1]
    ELSE LET m == MaxOf(Tail(s)) IN IF s[1] >= m THEN s[1] ELSE m

\* encode_execution_results(execution_results, is_batch, format_error, encode)
encode_execution_results(execution_results, is_batch, pretty) ==
    LET responses == [i \in 1..Len(execution_results) |->
                         format_execution_result(execution_results[i])]
        result == [i \in 1..Len(responses) |-> responses[i].response]
        status_code == MaxOf([i \in 1..Len(responses) |-> responses[i].status_code])
    IN [result |-> IF is_batch THEN json_encode_list(result, pretty)
                   ELSE json_encode_one(result[1], pretty),
        status_code |-> status_code]

(***************************************************************************)
(* State.                                                                  *)
(***************************************************************************)

VARIABLES
    kwargs,     \* the keyword arguments the view was constructed with
    view,       \* the GraphQLView instance (self)
    request,    \* request[r]: the r-th request handled by the view
    pc,         \* pc[r]: where dispatch stands for request r
    frame,      \* frame[r]: the local variables of dispatch for request r
    response,   \* response[r]: the HttpResponse dispatch returned, if any
    raised,     \* raised[r]: every HttpQueryError raised while handling r,
                \*            those caught inside run_http_query included
    neg         \* the negotiation harness: an Accept header and its ranking

vars == << kwargs, view, request, pc, frame, response, raised, neg >>

NoContext == [query |-> << >>, result |-> json_encode_one(JsonNull, FALSE)]

NoResponse ==
    [via |-> "none", status |-> 0, content_type |-> "", headers |-> EmptyDict,
     content |-> json_encode_one(JsonNull, FALSE), context |-> NoContext]

EmptyFrame ==
    [request_method |-> << >>, data |-> ScalarData, show_graphiql |-> FALSE,
     pretty |-> FALSE, execution_results |-> << >>, all_params |-> << >>,
     result |-> json_encode_one(JsonNull, FALSE), status_code |-> 0]

(***************************************************************************)
(* GraphQLView.dispatch, step by step.                                     *)
(***************************************************************************)

\* should_display_graphiql without the test for 'raw' in request.GET.
should_display_graphiql_ignores_raw(self, req) ==
    IF ~self.graphiql THEN FALSE
    ELSE request_wants_html(req.META)

\* GraphQLView.should_display_graphiql
should_display_graphiql(self, req) ==
    IF ~self.graphiql \/ "raw" \in DOMAIN req.GET THEN FALSE
    ELSE request_wants_html(req.META)

\* The except clause answering 400 whatever the error's status_code.
OnErrorStatus400(e) ==
    [via |-> "except", status |-> 400, content_type |-> "application/json",
     headers |-> e.headers,
     content |-> json_encode_one(JsonErrors(<< e.message >>), FALSE),
     context |-> NoContext]

\* The except clause of dispatch: the response for an HttpQueryError.
OnError(e) ==
    [via |-> "except", status |-> e.status_code, content_type |-> "application/json",
     headers |-> e.headers,
     content |-> json_encode_one(JsonErrors(<< e.message >>), FALSE),
     context |-> NoContext]

\* render_graphiql: django's render() answers 200 with the template filled in.
render_graphiql(params, result) ==
    [via |-> "render_graphiql", status |-> 200, content_type |-> "text/html",
     headers |-> EmptyDict, content |-> json_encode_one(JsonNull, FALSE),
     context |-> [query |-> params.query, result |-> result]]

\* The JSON response without status=status_code: HttpResponse's default 200.
JsonHttpResponseAlways200(result, status_code) ==
    [via |-> "HttpResponse", status |-> 200, content_type |-> "application/json",
     headers |-> EmptyDict, content |-> result, context |-> NoContext]

\* HttpResponse(result, status=status_code, content_type='application/json')
JsonHttpResponse(result, status_code) ==
    [via |-> "HttpResponse", status |-> status_code, content_type |-> "application/json",
     headers |-> EmptyDict, content |-> result, context |-> NoContext]

\* Lines 109-110: request.method.lower() and parse_body.
ParseBody(r) ==
    /\ pc[r] = "parse_body"
    /\ LET out == parse_body(request[r]) IN
       \/ /\ out.tag = "ok"
          /\ frame' = [frame EXCEPT ![r].request_method = Lower(request[r].method),
                                    ![r].data = out.value]
          /\ pc' = [pc EXCEPT ![r] = "run_http_query"]
          /\ UNCHANGED << response, raised >>
       \/ /\ out.tag = "HttpQueryError"
          /\ response' = [response EXCEPT ![r] = OnError(out.error)]
          /\ raised' = [raised EXCEPT ![r] = Append(@, out.error)]
          /\ pc' = [pc EXCEPT ![r] = "done"]
          /\ UNCHANGED frame
       \/ /\ out.tag = "UnicodeDecodeError"
          /\ pc' = [pc EXCEPT ![r] = "propagated"]
          /\ UNCHANGED << frame, response, raised >>
    /\ UNCHANGED << kwargs, view, request, neg >>

\* RunHttpQuery keeping the computed pretty on the view (self.pretty = pretty).
RunHttpQueryStoresPretty(r) ==
    /\ pc[r] = "run_http_query"
    /\ LET request_method == frame[r].request_method
           show_graphiql == /\ request_method = << "get" >>
                            /\ should_display_graphiql(view, request[r])
           catch == show_graphiql
           pretty == \/ view.pretty
                     \/ show_graphiql
                     \/ DictGet(request[r].GET, "pretty", << >>) # << >>
           out == run_http_query(request_method, frame[r].data, request[r].GET,
                                 view.batch, catch)
       IN
       /\ view' = [view EXCEPT !.pretty = pretty]
       /\ \/ /\ out.tag = "ok"
             /\ frame' = [frame EXCEPT ![r].show_graphiql = show_graphiql,
                                       ![r].pretty = pretty,
                                       ![r].execution_results = out.results,
                                       ![r].all_params = out.all_params]
             /\ raised' = [raised EXCEPT ![r] = @ \o out.caught]
             /\ pc' = [pc EXCEPT ![r] = "encode"]
             /\ UNCHANGED response
          \/ /\ out.tag = "HttpQueryError"
             /\ response' = [response EXCEPT ![r] = OnError(out.error)]
             /\ raised' = [raised EXCEPT ![r] = Append(@, out.error)]
             /\ pc' = [pc EXCEPT ![r] = "done"]
             /\ UNCHANGED frame
    /\ UNCHANGED << kwargs, request, neg >>

\* Lines 112-130: show_graphiql, catch, pretty and run_http_query.
RunHttpQuery(r) ==
    /\ pc[r] = "run_http_query"
    /\ LET request_method == frame[r].request_method
           show_graphiql == /\ request_method = << "get" >>
                            /\ should_display_graphiql(view, request[r])
           catch == show_graphiql
           pretty == \/ view.pretty
                     \/ show_graphiql
                     \/ DictGet(request[r].GET, "pretty", << >>) # << >>
           out == run_http_query(request_method, frame[r].data, request[r].GET,
                                 view.batch, catch)
       IN
       \/ /\ out.tag = "ok"
          /\ frame' = [frame EXCEPT ![r].show_graphiql = show_graphiql,
                                    ![r].pretty = pretty,
                                    ![r].execution_results = out.results,
                                    ![r].all_params = out.all_params]
          /\ raised' = [raised EXCEPT ![r] = @ \o out.caught]
          /\ pc' = [pc EXCEPT ![r] = "encode"]
          /\ UNCHANGED response
       \/ /\ out.tag = "HttpQueryError"
          /\ response' = [response EXCEPT ![r] = OnError(out.error)]
          /\ raised' = [raised EXCEPT ![r] = Append(@, out.error)]
          /\ pc' = [pc EXCEPT ![r] = "done"]
          /\ UNCHANGED frame
    /\ UNCHANGED << kwargs, view, request, neg >>

\* EncodeResults taking is_batch from the view's batch option instead of
\* from the shape of the decoded data.
EncodeResultsBatchFromView(r) ==
    /\ pc[r] = "encode"
    /\ LET out == encode_execution_results(frame[r].execution_results,
                                           view.batch,
                                           frame[r].pretty)
       IN frame' = [frame EXCEPT ![r].result = out.result,
                                 ![r].status_code = out.status_code]
    /\ pc' = [pc EXCEPT ![r] = "respond"]
    /\ UNCHANGED << kwargs, view, request, response, raised, neg >>

\* Lines 131-136: encode_execution_results.
EncodeResults(r) ==
    /\ pc[r] = "encode"
    /\ LET out == encode_execution_results(frame[r].execution_results,
                                           frame[r].data.kind = "list",
                                           frame[r].pretty)
       IN frame' = [frame EXCEPT ![r].result = out.result,
                                 ![r].status_code = out.status_code]
    /\ pc' = [pc EXCEPT ![r] = "respond"]
    /\ UNCHANGED << kwargs, view, request, response, raised, neg >>

\* Lines 138-143: the explorer page.
RenderGraphiql(r) ==
    /\ pc[r] = "respond"
    /\ frame[r].show_graphiql
    /\ response' = [response EXCEPT
                      ![r] = render_graphiql(frame[r].all_params[1], frame[r].result)]
    /\ pc' = [pc EXCEPT ![r] = "done"]
    /\ UNCHANGED << kwargs, view, request, frame, raised, neg >>

\* Lines 145-149: the JSON response.
JsonResponse(r) ==
    /\ pc[r] = "respond"
    /\ ~frame[r].show_graphiql
    /\ response' = [response EXCEPT
                      ![r] = JsonHttpResponse(frame[r].result, frame[r].status_code)]
    /\ pc' = [pc EXCEPT ![r] = "done"]
    /\ UNCHANGED << kwargs, view, request, frame, raised, neg >>

\* dispatch as a whole, for one request handled alone: the response it
\* returns (NoResponse when an exception other than HttpQueryError leaves it).
DispatchAlone(self, req) ==
    LET parsed == parse_body(req)
        request_method == Lower(req.method)
        show_graphiql == /\ request_method = << "get" >>
                         /\ should_display_graphiql(self, req)
        pretty == \/ self.pretty
                  \/ show_graphiql
                  \/ DictGet(req.GET, "pretty", << >>) # << >>
        ran == run_http_query(request_method, parsed.value, req.GET, self.batch,
                              show_graphiql)
        enc == encode_execution_results(ran.results, parsed.value.kind = "list", pretty)
    IN IF parsed.tag = "UnicodeDecodeError" THEN NoResponse
       ELSE IF parsed.tag = "HttpQueryError" THEN OnError(parsed.error)
       ELSE IF ran.tag = "HttpQueryError" THEN OnError(ran.error)
       ELSE IF show_graphiql THEN render_graphiql(ran.all_params[1], enc.result)
       ELSE JsonHttpResponse(enc.result, enc.status_code)

Next ==
    \/ \E r \in DOMAIN request : ParseBody(r)
    \/ \E r \in DOMAIN request : RunHttpQuery(r)
    \/ \E r \in DOMAIN request : EncodeResults(r)
    \/ \E r \in DOMAIN request : RenderGraphiql(r)
    \/ \E r \in DOMAIN request : JsonResponse(r)

(***************************************************************************)
(* The negotiation harness: ranks one Accept header, then decides.         *)
(***************************************************************************)

NegRank ==
    /\ neg.stage = "header"
    /\ neg' = [neg EXCEPT !.accepted = get_accepted_content_types(neg.meta),
                          !.stage = "ranked"]
    /\ UNCHANGED << kwargs, view, request, pc, frame, response, raised >>

NegDecide ==
    /\ neg.stage = "ranked"
    /\ neg' = [neg EXCEPT !.wants = request_wants_html(neg.meta),
                          !.stage = "decided"]
    /\ UNCHANGED << kwargs, view, request, pc, frame, response, raised >>

NextNeg == NegRank \/ NegDecide

(***************************************************************************)
(* Inputs.                                                                 *)
(***************************************************************************)

RECURSIVE JoinLex(_, _)
JoinLex(parts, sep) ==
    IF parts = << >> THEN << >>
    ELSE IF Len(parts) = 1 THEN parts[1]
    ELSE parts[1] \o << sep >> \o JoinLex(Tail(parts), sep)

Text(t) == [utf8 |-> TRUE, text |-> t]
NotUtf8 == [utf8 |-> FALSE, text |-> << "\\xff" >>]

ArrayObjs == {ObjA, ObjFail, ObjNone}
ArrayTexts ==
    {<< "[" >> \o JoinLex([i \in 1..Len(objs) |-> << objs[i] >>], ",") \o << "]" >> :
        objs \in UNION {[1..n -> ArrayObjs] : n \in 0..MaxBatch}}

JsonBodies ==
    {Text(<< o >>) : o \in ObjLexemes}
    \cup {Text(t) : t \in {t \in ArrayTexts : JsonValid(t)}}
    \cup {Text(<< "{" >>), Text(<< "[", ObjA >>), Text(<< "3" >>), NotUtf8}

GraphqlBodies == {Text(QueryA), Text(QueryFail), Text(MutationM), Text(<< "{" >>),
                  Text(<< >>), NotUtf8}

JsonCTs ==
    {("CONTENT_TYPE" :> << "application/json" >>),
     ("CONTENT_TYPE" :> << "APPLICATION/JSON", ";", "charset=utf-8" >>),
     ("HTTP_CONTENT_TYPE" :> << "application/json" >>)}
GraphqlCTs == {("CONTENT_TYPE" :> << "Application/GraphQL" >>)}
FormCTs ==
    {("CONTENT_TYPE" :> << "application/x-www-form-urlencoded" >>),
     ("CONTENT_TYPE" :> << "multipart/form-data", ";", "boundary=x" >>)}
OtherCTs ==
    {EmptyDict,
     ("CONTENT_TYPE" :> << "text/plain" >>),
     ("CONTENT_TYPE" :> << >>) @@ ("HTTP_CONTENT_TYPE" :> << "application/json" >>)}

\* Content type, body and form fields that go together.
Payloads ==
    {[ct |-> c, body |-> b, POST |-> EmptyDict] : c \in JsonCTs, b \in JsonBodies}
    \cup {[ct |-> c, body |-> b, POST |-> EmptyDict] : c \in GraphqlCTs, b \in GraphqlBodies}
    \cup {[ct |-> c, body |-> Text(<< "query=%7Ba%7D" >>), POST |-> ("query" :> QueryA)] :
             c \in FormCTs}
    \cup {[ct |-> c, body |-> Text(<< ObjA >>), POST |-> EmptyDict] : c \in OtherCTs}

AcceptHtmlJson == << "text/html", ",", "application/json", ";", "q=", "0", ".", "9" >>

Accepts ==
    {EmptyDict,
     ("HTTP_ACCEPT" :> << "text/html" >>),
     ("HTTP_ACCEPT" :> << "application/json" >>),
     ("HTTP_ACCEPT" :> AcceptHtmlJson)}

QueryStrings ==
    {EmptyDict,
     ("raw" :> << >>),
     ("pretty" :> << "1" >>),
     ("query" :> QueryA),
     ("query" :> QueryFail),
     ("query" :> MutationM)}

Methods == {<< "GET" >>, << "POST" >>, << "PUT" >>}

Requests ==
    {[method |-> m, META |-> p.ct @@ a, body |-> p.body, POST |-> p.POST, GET |-> g] :
        m \in Methods, p \in Payloads, a \in Accepts, g \in QueryStrings}

KwargsSet ==
    {b @@ g @@ x :
        b \in {EmptyDict, ("batch" :> TRUE), ("batch" :> FALSE)},
        g \in {EmptyDict, ("graphiql" :> TRUE)},
        x \in {EmptyDict,
               ("pretty" :> TRUE) @@
               ("middleware" :> << MwClass("A"), MwInstance("b") >>)}}

IdleNeg == [meta |-> EmptyDict, accepted |-> << >>, wants |-> FALSE, stage |-> "idle"]

Init ==
    /\ kwargs \in KwargsSet
    /\ view = GraphQLViewInit(kwargs)
    /\ request \in [{1} -> Requests]
    /\ pc = [r \in DOMAIN request |-> "parse_body"]
    /\ frame = [r \in DOMAIN request |-> EmptyFrame]
    /\ response = [r \in DOMAIN request |-> NoResponse]
    /\ raised = [r \in DOMAIN request |-> << >>]
    /\ neg = IdleNeg

\* One request at a time, every input.
Spec == Init /\ [][Next]_vars

\* Requests handled concurrently by one view.
ConcRequests ==
    {[method |-> << "GET" >>, META |-> ("HTTP_ACCEPT" :> << "text/html" >>),
      body |-> Text(<< >>), POST |-> EmptyDict, GET |-> EmptyDict],
     [method |-> << "POST" >>, META |-> ("CONTENT_TYPE" :> << "application/json" >>),
      body |-> Text(<< "[", ObjA, ",", ObjFail, "]" >>), POST |-> EmptyDict,
      GET |-> EmptyDict],
     [method |-> << "POST" >>, META |-> ("CONTENT_TYPE" :> << "application/json" >>),
      body |-> Text(<< ObjA >>), POST |-> EmptyDict, GET |-> ("pretty" :> << "1" >>)],
     [method |-> << "POST" >>, META |-> ("CONTENT_TYPE" :> << "application/json" >>),
      body |-> Text(<< "{" >>), POST |-> EmptyDict, GET |-> EmptyDict],
     [method |-> << "GET" >>, META |-> EmptyDict,
      body |-> Text(<< >>), POST |-> EmptyDict, GET |-> ("query" :> QueryA)]}

ConcKwargs == {EmptyDict, ("batch" :> TRUE) @@ ("graphiql" :> TRUE)}

InitConc ==
    /\ kwargs \in ConcKwargs
    /\ view = GraphQLViewInit(kwargs)
    /\ request \in [1..NumReq -> ConcRequests]
    /\ pc = [r \in DOMAIN request |-> "parse_body"]
    /\ frame = [r \in DOMAIN request |-> EmptyFrame]
    /\ response = [r \in DOMAIN request |-> NoResponse]
    /\ raised = [r \in DOMAIN request |-> << >>]
    /\ neg = IdleNeg

SpecConc == InitConc /\ [][Next]_vars

\* Accept headers: up to MaxEntries entries, each a media type and a
\* parameter block.
NegMedia == {<< "text/html" >>, << "application/json" >>, << "*/*" >>}
NegParams ==
    {<< >>,
     << ";", "q=", "0", ".", "9" >>,
     << ";", "q=", "0", ".", "5" >>,
     << ";", "level=1", ";", "q=", "0", ".", "5" >>,
     << ";", "q=", "1", ".", "5" >>,
     << ";", ";", "q=", "0", ".", "2" >>}
NegEntries == {m \o p : m \in NegMedia, p \in NegParams}
NegHeaders ==
    {JoinLex(es, ",") : es \in UNION {[1..n -> NegEntries] : n \in 1..MaxEntries}}
NegMetas == {EmptyDict} \cup {("HTTP_ACCEPT" :> h) : h \in NegHeaders}

InitNeg ==
    /\ kwargs = EmptyDict
    /\ view = GraphQLViewInit(kwargs)
    /\ request = << >>
    /\ pc = << >>
    /\ frame = << >>
    /\ response = << >>
    /\ raised = << >>
    /\ neg \in {[IdleNeg EXCEPT !.meta = m, !.stage = "header"] : m \in NegMetas}

SpecNeg == InitNeg /\ [][NextNeg]_vars

(***************************************************************************)
(* Properties.                                                             *)
(***************************************************************************)

Reqs == DOMAIN request

\* The explorer would be shown for request r: GET, graphiql enabled, no
\* 'raw' key, and the Accept header wants HTML.
WouldShowExplorer(r) ==
    /\ request[r].method = << "GET" >>
    /\ view.graphiql
    /\ "raw" \notin DOMAIN request[r].GET
    /\ request_wants_html(request[r].META)

\* resp is the error response for HttpQueryError e, field by field.
IsErrorResponseFor(resp, e) ==
    /\ resp.via = "except"
    /\ resp.status = e.status_code
    /\ resp.content_type = "application/json"
    /\ resp.content.tokens = << Tok("value", JsonErrors(<< e.message >>)) >>
    /\ resp.headers = e.headers

C1_PerOperation(e) ==
    e.message \in {"Must provide query string.",
                   "Can only perform a mutation operation from a POST request."}

C2_MoreHtmlThanJson(meta) ==
    LET entries == Split(DictGet(meta, "HTTP_ACCEPT", << "*/*" >>), ",")
        types == [i \in 1..Len(entries) |-> Split1(entries[i], ";")[1]]
    IN Cardinality({i \in 1..Len(types) : types[i] = << "text/html" >>})
         > Cardinality({i \in 1..Len(types) : types[i] = << "application/json" >>})

\* C2: a request that completes without HttpQueryError is answered with the
\* explorer page iff the method is GET, graphiql is enabled, the query
\* parameters have no 'raw' key and the Accept header names text/html more
\* often than application/json; otherwise with JSON as application/json.
C2_ExplorerIffFourConditions ==
    \A r \in Reqs :
        (pc[r] = "done" /\ response[r].via \in {"render_graphiql", "HttpResponse"})
            => /\ response[r].via = "render_graphiql"
                    <=> /\ request[r].method = << "GET" >>
                        /\ view.graphiql
                        /\ "raw" \notin DOMAIN request[r].GET
                        /\ C2_MoreHtmlThanJson(request[r].META)
               /\ response[r].via = "HttpResponse"
                    => response[r].content_type = "application/json"

\* C2 witness: the explorer page was returned for a request.
C2_Witness ==
    \E r \in Reqs : pc[r] = "done" /\ response[r].via = "render_graphiql"

\* Some ExecutionResult of request r has a non-empty error sequence.
C3_SomeResultHasErrors(r) ==
    \E i \in 1..Len(frame[r].execution_results) :
        frame[r].execution_results[i].errors # << >>

\* C3 (as stated): a request that does not fail with an HttpQueryError is
\* answered with status 400 if some ExecutionResult has errors and 200
\* otherwise, by the explorer branch and by the JSON branch alike.
C3_StatusFromErrorsOnEveryBranch ==
    \A r \in Reqs :
        (pc[r] = "done" /\ response[r].via \in {"render_graphiql", "HttpResponse"})
            => response[r].status = IF C3_SomeResultHasErrors(r) THEN 400 ELSE 200

\* C3 (amended): the JSON response has status 400 if some ExecutionResult
\* has errors and 200 otherwise; the explorer page always has status 200.
C3_StatusFromErrorsOnJsonBranch ==
    \A r \in Reqs :
        pc[r] = "done"
            => /\ response[r].via = "HttpResponse"
                    => response[r].status =
                           IF C3_SomeResultHasErrors(r) THEN 400 ELSE 200
               /\ response[r].via = "render_graphiql" => response[r].status = 200

\* C3 witness: a batch answered in JSON with status 400 although one of its
\* results has no errors and the failing one carries data.
C3_Witness ==
    \E r \in Reqs :
        /\ pc[r] = "done"
        /\ response[r].via = "HttpResponse"
        /\ response[r].status = 400
        /\ \E i, j \in 1..Len(frame[r].execution_results) :
              /\ frame[r].execution_results[i].errors = << >>
              /\ frame[r].execution_results[j].errors # << >>
              /\ frame[r].execution_results[j].data # None

\* C4: a view constructed without a batch option passes batch_enabled =
\* true to the query runner, so a request whose body is a non-empty JSON
\* array is not ended by "Batch GraphQL requests are not enabled."
C4_BatchDefaultsToTrue ==
    \A r \in Reqs :
        (/\ "batch" \notin DOMAIN kwargs
         /\ pc[r] = "done"
         /\ frame[r].data.kind = "list"
         /\ frame[r].data.items # << >>)
            => /\ view.batch
               /\ \A i \in 1..Len(raised[r]) :
                     raised[r][i].message # "Batch GraphQL requests are not enabled."

\* The result the schema gives for the query of a payload.
C5_ResultFor(query) ==
    JsonResult(Execute(query).data, Execute(query).errors)

\* The JSON text the response of request r carries.
C5_Carried(r) ==
    IF response[r].via = "render_graphiql" THEN response[r].context.result
    ELSE response[r].content

\* C5: with no request-level error, a batch of n operations is answered
\* with a JSON array of exactly n results, the i-th that of the i-th
\* operation, and a single request with its one result, not in an array;
\* which of the two depends on the shape of the decoded body alone.
C5_BatchShapeAndOrder ==
    \A r \in Reqs :
        (/\ pc[r] = "done"
         /\ raised[r] = << >>
         /\ response[r].via \in {"render_graphiql", "HttpResponse"})
            => LET tokens == C5_Carried(r).tokens
                   data == frame[r].data
                   n == Len(data.items)
               IN IF data.kind = "list"
                  THEN /\ n >= 1
                       /\ Len(tokens) = 2 * n + 1
                       /\ tokens[1].t = "[" /\ tokens[2 * n + 1].t = "]"
                       /\ \A i \in 1..n :
                             /\ tokens[2 * i] =
                                   Tok("value", C5_ResultFor(data.items[i]["query"]))
                             /\ i < n => tokens[2 * i + 1].t = ","
                  ELSE /\ Len(tokens) = 1
                       /\ tokens[1].t = "value"
                       /\ tokens[1].v \in
                             {C5_ResultFor(DictGet(data.fields, "query", << >>)),
                              C5_ResultFor(DictGet(request[r].GET, "query", << >>))}

\* C5 witness: a batch of two different operations was answered.
C5_Witness ==
    \E r \in Reqs :
        /\ pc[r] = "done"
        /\ raised[r] = << >>
        /\ response[r].via = "HttpResponse"
        /\ frame[r].data.kind = "list"
        /\ Len(frame[r].data.items) >= 2
        /\ frame[r].data.items[1] # frame[r].data.items[2]

\* C6: request_wants_html is true for "text/html,application/json;q=0.9",
\* false for "application/json" and false for "*/*".
C6_WantsHtmlExamples ==
    neg.stage = "decided"
        => /\ AcceptOf(neg.meta) = AcceptHtmlJson => neg.wants
           /\ AcceptOf(neg.meta) = << "application/json" >> => ~neg.wants
           /\ AcceptOf(neg.meta) = << "*/*" >> => ~neg.wants

\* The weight of an entry as the claim has it: the value of the first
\* well-formed q= parameter anywhere in the parameter block, else 1.
C7_Weight(entry) ==
    LET params == Tail(Split(entry, ";"))
        good == {i \in 1..Len(params) :
                    /\ Len(params[i]) >= 2
                    /\ params[i][1] = "q="
                    /\ QLang(Tail(params[i]))}
    IN IF good = {} THEN DefaultWeight
       ELSE QFloat(Tail(params[CHOOSE i \in good : \A j \in good : i <= j]))

C7_Ranking(header) ==
    LET entries == Split(header, ",")
        weighted == [i \in 1..Len(entries) |->
                        << Split1(entries[i], ";")[1], C7_Weight(entries[i]) >>]
        ranked == SortedDesc(weighted)
    IN [i \in 1..Len(ranked) |-> ranked[i][1]]

\* C7: get_accepted_content_types returns one media type per entry of the
\* header, parameters cut off, by descending weight and in order of
\* appearance among equal weights, the weight of an entry being its
\* well-formed q= parameter wherever it stands in the parameter block.
C7_RankedByQAnywhere ==
    neg.stage \in {"ranked", "decided"}
        => neg.accepted = C7_Ranking(AcceptOf(neg.meta))

\* The type token of the request's content type: up to the first ';', in
\* lower case.
RECURSIVE C8_UpToSemicolon(_)
C8_UpToSemicolon(s) ==
    IF s = << >> \/ Head(s) = ";" THEN << >>
    ELSE << Head(s) >> \o C8_UpToSemicolon(Tail(s))

C8_TypeToken(req) ==
    LET raw == IF "CONTENT_TYPE" \in DOMAIN req.META THEN req.META["CONTENT_TYPE"]
               ELSE IF "HTTP_CONTENT_TYPE" \in DOMAIN req.META
                    THEN req.META["HTTP_CONTENT_TYPE"]
               ELSE << >>
        tok == C8_UpToSemicolon(raw)
    IN IF tok \in {<< "APPLICATION/JSON" >>, << "application/json" >>}
       THEN "application/json"
       ELSE IF tok \in {<< "Application/GraphQL" >>, << "application/graphql" >>}
       THEN "application/graphql"
       ELSE IF tok = << >> THEN "" ELSE tok[1]

\* C8: parse_body decodes by the type token alone: application/graphql
\* gives {query: body}; application/json the parsed JSON, or an
\* HttpQueryError 400 when the body is not JSON; the two form types the
\* form fields; anything else the empty mapping and no error.
C8_DecodedByTypeToken ==
    \A r \in Reqs :
        pc[r] # "parse_body"
            => LET tok == C8_TypeToken(request[r])
                   body == request[r].body
                   decoded == /\ pc[r] # "propagated"
                              /\ \A i \in 1..Len(raised[r]) :
                                    raised[r][i].message # "POST body sent invalid JSON."
               IN CASE tok = "application/graphql" ->
                         decoded /\ frame[r].data = DictData("query" :> body.text)
                    [] tok = "application/json" /\ body.utf8 /\ JsonValid(body.text) ->
                         decoded /\ frame[r].data = JsonLoads(body.text)
                    [] tok = "application/json" /\ ~(body.utf8 /\ JsonValid(body.text)) ->
                         /\ pc[r] = "done"
                         /\ response[r].via = "except"
                         /\ response[r].status = 400
                         /\ raised[r][1].message = "POST body sent invalid JSON."
                    [] tok \in {"application/x-www-form-urlencoded",
                                "multipart/form-data"} ->
                         decoded /\ frame[r].data = DictData(request[r].POST)
                    [] OTHER ->
                         decoded /\ frame[r].data = DictData(EmptyDict)

\* C9: when dispatch is over for a request, the request has exactly one
\* response: the JSON result, the explorer page or the JSON error body; no
\* failure leaves dispatch without a response.
C9_EveryRequestIsAnswered ==
    \A r \in Reqs :
        pc[r] \in {"done", "propagated"}
            => response[r].via \in {"HttpResponse", "render_graphiql", "except"}

\* C10: handling requests never changes the view's configuration, and under
\* any interleaving each request gets the response it gets when handled
\* alone.
C10_ViewImmutableAndIsolated ==
    /\ view = GraphQLViewInit(kwargs)
    /\ \A r \in Reqs :
          pc[r] \in {"done", "propagated"}
              => response[r] = DispatchAlone(GraphQLViewInit(kwargs), request[r])

\* C10 witness: one request has been answered while a different one is
\* between run_http_query and its response.
C10_Witness ==
    \E r1, r2 \in Reqs :
        /\ request[r1] # request[r2]
        /\ pc[r1] = "done"
        /\ response[r1].via # "none"
        /\ pc[r2] \in {"encode", "respond"}

====
